---- MODULE Spec2Model ----
(***************************************************************************)
(* dvw-merger.py: transplant the verbose serve / reception codes of one    *)
(* .dvw file into the skeleton codes of another, rewriting it in place.    *)
(*                                                                         *)
(* A character is a one-character string, a text (a line, a code, a file)  *)
(* a sequence of characters.  A line as read from a file keeps its "\n";   *)
(* text mode has already turned "\r\n" and "\r" into "\n".                 *)
(***************************************************************************)
EXTENDS Integers, Sequences, FiniteSets, TLC

VARIABLES
    pc,                       \* position in the script / in merge
    args,                     \* argparse result: input, serve_codes, line_number
    input_file,               \* content of the file args.input on disk
    bak_file,                 \* content of its '.bak' sibling, None while there is none
    codes_file,               \* lines of the file args.serve_codes on disk
    codes_rest,               \* lines the extractor has not read yet
    service_codes,            \* the list of (serve code, reception code) tuples
    f,                        \* fileinput iterator: lines of the target not read yet
    index,                    \* merge: cursor into service_codes
    current_line,             \* merge: outer-loop line counter
    line,                     \* merge: the line in hand (None after end of file)
    is_reception_substituted, \* merge: flag of the current outer iteration
    stderr,                   \* everything printed to sys.stderr, in order
    console,                  \* messages printed to the terminal's stdout
    written                   \* history: every print() into the target, with the source line number

vars == <<pc, args, input_file, bak_file, codes_file, codes_rest, service_codes, f,
          index, current_line, line, is_reception_substituted, stderr, console,
          written>>

-----------------------------------------------------------------------------
(* Bounds of the model *)

MaxLines == 3        \* lines of the target file
MaxCodeLines == 3    \* lines of the serve-codes file
MaxStart == 2        \* largest --line-number

-----------------------------------------------------------------------------
(* Values *)

None == <<"None">>
NL == "\n"
BSL == "\\"
BEL == "BEL"          \* chr(7), what the template escape \a stands for
OCT == "OCT"          \* a character given by a three-digit octal escape
ReError == <<"re.error">>

Digits == {"0", "1", "2", "3", "4", "5", "6", "7", "8", "9"}
OctDigits == {"0", "1", "2", "3", "4", "5", "6", "7"}
AsciiLetters == {"a", "x", "S", "R"}     \* the ASCII letters of the model's alphabet
Whitespace == {" ", "\t", "\n", "\r", "\f"}

RECURSIVE Concat(_)
Concat(ss) == IF ss = <<>> THEN <<>> ELSE Head(ss) \o Concat(Tail(ss))

\* str.rstrip(): drop every trailing whitespace character.
RECURSIVE rstrip(_)
rstrip(s) ==
    IF s # <<>> /\ s[Len(s)] \in Whitespace
    THEN rstrip(SubSeq(s, 1, Len(s) - 1))
    ELSE s

\* Iterating a text file: cut after every "\n"; a last piece without "\n" is a line too.
RECURSIVE SplitFrom(_, _, _)
SplitFrom(s, start, i) ==
    IF i > Len(s)
    THEN IF start > Len(s) THEN <<>> ELSE <<SubSeq(s, start, Len(s))>>
    ELSE IF s[i] = NL
         THEN <<SubSeq(s, start, i)>> \o SplitFrom(s, i + 1, i + 1)
         ELSE SplitFrom(s, start, i + 1)

readlines(s) == SplitFrom(s, 1, 1)

-----------------------------------------------------------------------------
(* The two patterns *)

\* [^;]* from position i: greedy, and "\n" is not ';'.
RECURSIVE RunNotSep(_, _)
RunNotSep(s, i) ==
    IF i > Len(s) \/ s[i] = ";" THEN 0 ELSE 1 + RunNotSep(s, i + 1)

\* MatchLen for ^([*a]?[0-9]{2}<letter>[^;]*): the marker may be missing.
MatchLenBare(letter, s) ==
    IF /\ Len(s) >= 4
       /\ s[1] \in {"*", "a"}
       /\ s[2] \in Digits /\ s[3] \in Digits
       /\ s[4] = letter
    THEN 4 + RunNotSep(s, 5)
    ELSE IF /\ Len(s) >= 3
            /\ s[1] \in Digits /\ s[2] \in Digits
            /\ s[3] = letter
    THEN 3 + RunNotSep(s, 4)
    ELSE 0

\* Length of group 1 of ^([*a][0-9]{2}<letter>[^;]*) searched in s; 0 when there is no match.
MatchLen(letter, s) ==
    IF /\ Len(s) >= 4
       /\ s[1] \in {"*", "a"}
       /\ s[2] \in Digits /\ s[3] \in Digits
       /\ s[4] = letter
    THEN 4 + RunNotSep(s, 5)
    ELSE 0

PATTERN_SERVE(s) == MatchLen("S", s)
PATTERN_RECEPTION(s) == MatchLen("R", s)

\* re.sub's replacement template: t from position i on, g the text of group 1.
\* A literal character stands for itself; a backslash starts an escape.
OrError(a, r) == IF r = ReError THEN ReError ELSE a \o r

RECURSIVE expand_template(_, _, _)
expand_template(t, i, g) ==
    IF i > Len(t) THEN <<>>
    ELSE IF t[i] # BSL THEN OrError(<<t[i]>>, expand_template(t, i + 1, g))
    ELSE IF i = Len(t) THEN ReError                      \* bad escape (end of pattern)
    ELSE LET c == t[i + 1]
             d2 == i + 2 <= Len(t) /\ t[i + 2] \in Digits
             o2 == i + 2 <= Len(t) /\ t[i + 2] \in OctDigits
             o3 == i + 3 <= Len(t) /\ t[i + 3] \in OctDigits
         IN  CASE c = BSL -> OrError(<<BSL>>, expand_template(t, i + 2, g))
               [] c = "a" -> OrError(<<BEL>>, expand_template(t, i + 2, g))
               [] c = "0" ->                             \* octal escape, up to three digits
                    OrError(<<OCT>>, expand_template(t, i + 2 + (IF o2 THEN (IF o3 THEN 2 ELSE 1) ELSE 0), g))
               [] c \in Digits \ {"0"} ->
                    IF d2
                    THEN IF c \in OctDigits /\ o2 /\ o3
                         THEN IF c \in {"4", "5", "6", "7"}
                              THEN ReError               \* octal escape value outside 0-0o377
                              ELSE OrError(<<OCT>>, expand_template(t, i + 4, g))
                         ELSE ReError                    \* invalid group reference (two digits)
                    ELSE IF c = "1"
                         THEN OrError(g, expand_template(t, i + 2, g))
                         ELSE ReError                    \* invalid group reference
               [] c \in AsciiLetters \ {"a"} -> ReError  \* bad escape
               [] OTHER -> OrError(<<BSL, c>>, expand_template(t, i + 2, g))

\* re.sub(PATTERN, repl, s) for the pattern with the given letter: the one match,
\* anchored at the start of s, is replaced by the expanded template.
re_sub(letter, repl, s) ==
    LET n == MatchLen(letter, s)
        e == expand_template(repl, 1, SubSeq(s, 1, n))
    IN  IF e = ReError THEN ReError
        ELSE IF n = 0 THEN s
        ELSE e \o SubSeq(s, n + 1, Len(s))

\* Python truth value of a code slot: None and '' are false.
Truthy(x) == x # None /\ x # <<>>

-----------------------------------------------------------------------------
(* is_dvw_file *)

FILE_EXTENSION_DVW == ".dvw"

\* is_dvw_file without its test of the extension.
is_dvw_file_any_extension(p) ==
    IF ~p.exists THEN FALSE
    ELSE IF p.isdir THEN FALSE
    ELSE TRUE

\* A path is what the three tests of is_dvw_file see of it.
is_dvw_file(p) ==
    IF ~p.exists THEN FALSE
    ELSE IF p.isdir THEN FALSE
    ELSE IF p.ext # FILE_EXTENSION_DVW THEN FALSE
    ELSE TRUE

-----------------------------------------------------------------------------
(* get_verbose_service_codes: the body of its loop for one line *)

Diag(kind, src) == [kind |-> kind, text |-> <<>>, src |-> src]
Log(kind, text, src) == [kind |-> kind, text |-> text, src |-> src]

\* extract_line without the test of the last pair's reception slot.
extract_line_overwrite(codes, ln, src) ==
    IF PATTERN_SERVE(ln) > 0
    THEN [codes |-> Append(codes, <<SubSeq(ln, 1, PATTERN_SERVE(ln)), None>>), err |-> <<>>]
    ELSE IF PATTERN_RECEPTION(ln) > 0
    THEN LET code == SubSeq(ln, 1, PATTERN_RECEPTION(ln))
             length == Len(codes)
         IN  IF length = 0
             THEN [codes |-> codes, err |-> <<Diag("reception before service", src)>>]
             ELSE [codes |-> [codes EXCEPT ![length] = <<codes[length][1], code>>],
                   err |-> <<Diag("reception before service", src)>>]
    ELSE [codes |-> codes, err |-> <<>>]

\* extract_line with the reception code given to the first pair that has none.
extract_line_first_unattached(codes, ln, src) ==
    IF PATTERN_SERVE(ln) > 0
    THEN [codes |-> Append(codes, <<SubSeq(ln, 1, PATTERN_SERVE(ln)), None>>), err |-> <<>>]
    ELSE IF PATTERN_RECEPTION(ln) > 0
    THEN LET code == SubSeq(ln, 1, PATTERN_RECEPTION(ln))
             free == { j \in 1..Len(codes) : ~Truthy(codes[j][2]) }
         IN  IF free = {}
             THEN [codes |-> codes, err |-> <<Diag("reception before service", src)>>]
             ELSE LET first == CHOOSE j \in free : \A i \in free : j <= i
                  IN  [codes |-> [codes EXCEPT ![first] = <<codes[first][1], code>>],
                       err |-> <<>>]
    ELSE [codes |-> codes, err |-> <<>>]

extract_line(codes, ln, src) ==
    IF PATTERN_SERVE(ln) > 0
    THEN [codes |-> Append(codes, <<SubSeq(ln, 1, PATTERN_SERVE(ln)), None>>), err |-> <<>>]
    ELSE IF PATTERN_RECEPTION(ln) > 0
    THEN LET code == SubSeq(ln, 1, PATTERN_RECEPTION(ln))
             length == Len(codes)
         IN  IF length = 0 \/ Truthy(codes[length][2])
             THEN [codes |-> codes, err |-> <<Diag("reception before service", src)>>]
             ELSE [codes |-> [codes EXCEPT ![length] = <<codes[length][1], code>>],
                   err |-> <<>>]
    ELSE [codes |-> codes, err |-> <<>>]

-----------------------------------------------------------------------------
(* Inputs *)

\* Lines a skeleton file is made of.
TargetLines ==
    { <<"a", "1", "1", "S", ";", " ", NL>>,     \* serve line
      <<"*", "1", "1", "R", ";", " ", NL>>,     \* reception line
      <<"1", "1", "S", ";", " ", NL>> }         \* ordinary line: no marker before the digits

TargetLinesWide ==
    TargetLines \cup
    { <<"a", "1", "1", "S", ";", NL>>,          \* serve line, nothing before the terminator
      <<"x", NL>> }                             \* ordinary line, nothing before the terminator

\* Lines an annotated file is made of.
CodeLines ==
    { <<"a", "1", "3", "S", "~", ";", NL>>,     \* serve line
      <<"*", "1", "7", "R", "+", ";", NL>>,     \* reception line
      <<"a", "1", "3", "S", BSL, ";", NL>> }    \* serve line whose code ends in a backslash

CodeLinesWide ==
    CodeLines \cup
    { <<"a", "1", "3", "S", NL>>,               \* serve line without a field separator
      <<"1", "3", "S", ";", NL>> }              \* ordinary line: no marker before the digits

CodeLinesExtract ==
    CodeLinesWide \cup
    { <<"*", "1", "9", "R", ";", NL>> }         \* a second reception line

\* Lines with and without the marker before the digits.
TargetLinesMarker ==
    { <<"a", "1", "1", "S", ";", " ", NL>>,     \* serve line
      <<"1", "1", "S", ";", " ", NL>>,          \* the same without the marker
      <<"1", "1", "R", ";", " ", NL>> }         \* a reception code without the marker

CodeLinesMarker ==
    { <<"a", "1", "3", "S", "~", ";", NL>>,     \* serve line
      <<"*", "1", "7", "R", "+", ";", NL>>,     \* reception line
      <<"1", "3", "S", "~", ";", NL>>,          \* the same two without the marker
      <<"1", "7", "R", "+", ";", NL>> }

\* Lines of an annotated file, one of them without a field separator.
CodeLinesTwice ==
    { <<"a", "1", "3", "S", "~", ";", NL>>,     \* serve line
      <<"*", "1", "7", "R", "+", ";", NL>>,     \* reception line
      <<"a", "1", "3", "S", NL>> }              \* serve line without a field separator

SeqsUpTo(S, n) == UNION { [1..k -> S] : k \in 0..n }

Regular == [given |-> TRUE, exists |-> TRUE, isdir |-> FALSE, ext |-> ".dvw"]
NotGiven == [given |-> FALSE, exists |-> FALSE, isdir |-> FALSE, ext |-> ""]
Paths ==
    { Regular,
      [given |-> TRUE, exists |-> FALSE, isdir |-> FALSE, ext |-> ".dvw"],
      [given |-> TRUE, exists |-> TRUE, isdir |-> TRUE, ext |-> ".dvw"],
      [given |-> TRUE, exists |-> TRUE, isdir |-> FALSE, ext |-> ".txt"] }

\* The state when the script starts, the two files made of the given lines.
\* args.serve_codes is NotGiven (None) without --serve-codes; args.line_number 0
\* stands for both of its false values, None (no --line-number) and 0.
\* A path that names no regular file has no content; the content of the
\* serve-codes file is drawn in the runs that open it, which are those with
\* two regular '.dvw' paths, and left empty in the others.
InitFrom(targetLines, codeLines) ==
    /\ pc = "require_serve_codes"
    /\ args \in [input : Paths, serve_codes : Paths \cup {NotGiven}, line_number : 0..MaxStart]
    /\ input_file \in IF args.input.exists /\ ~args.input.isdir
                      THEN { Concat(ls) : ls \in SeqsUpTo(targetLines, MaxLines) }
                      ELSE { None }
    /\ codes_file \in IF args.serve_codes = Regular /\ args.input = Regular
                      THEN SeqsUpTo(codeLines, MaxCodeLines)
                      ELSE { <<>> }
    /\ bak_file = None
    /\ codes_rest = <<>>
    /\ service_codes = <<>>
    /\ f = <<>>
    /\ index = 0
    /\ current_line = 0
    /\ line = None
    /\ is_reception_substituted = FALSE
    /\ stderr = <<>>
    /\ console = <<>>
    /\ written = <<>>

Init == InitFrom(TargetLines, CodeLines)
InitWide == InitFrom(TargetLinesWide, CodeLinesWide)

\* Two files that pass the checks, made of lines with and without the marker.
InitMarker ==
    /\ InitFrom(TargetLinesMarker, CodeLinesMarker)
    /\ args.input = Regular
    /\ args.serve_codes = Regular

\* Two files that pass the checks, for a script that is run twice.
InitTwice ==
    /\ InitFrom(TargetLines, CodeLinesTwice)
    /\ args.input = Regular
    /\ args.serve_codes = Regular

\* The state in which the script calls get_verbose_service_codes.
InitExtract ==
    /\ pc = "open_codes"
    /\ args = [input |-> Regular, serve_codes |-> Regular, line_number |-> 0]
    /\ input_file = <<>>
    /\ codes_file \in SeqsUpTo(CodeLinesExtract, MaxCodeLines)
    /\ bak_file = None
    /\ codes_rest = <<>>
    /\ service_codes = <<>>
    /\ f = <<>>
    /\ index = 0
    /\ current_line = 0
    /\ line = None
    /\ is_reception_substituted = FALSE
    /\ stderr = <<>>
    /\ console = <<>>
    /\ written = <<>>

mergeVars == <<f, index, current_line, line, is_reception_substituted, written>>
extractVars == <<codes_file, codes_rest, service_codes>>

-----------------------------------------------------------------------------
(* The script *)

\* if not (args.serve_codes): parser.error(...)
RequireServeCodes ==
    /\ pc = "require_serve_codes"
    /\ IF ~args.serve_codes.given
       THEN /\ stderr' = Append(stderr, Diag("usage", 0))
            /\ pc' = "exit"
       ELSE /\ pc' = "check_input"
            /\ UNCHANGED stderr
    /\ UNCHANGED <<args, input_file, bak_file, console, extractVars, mergeVars>>

\* if not is_dvw_file(args.input): print(...); quit()
CheckInput ==
    /\ pc = "check_input"
    /\ IF ~is_dvw_file(args.input)
       THEN /\ console' = Append(console, "input is not a valid dvw file")
            /\ pc' = "exit"
       ELSE /\ pc' = "check_serve_codes"
            /\ UNCHANGED console
    /\ UNCHANGED <<args, input_file, bak_file, stderr, extractVars, mergeVars>>

\* if not is_dvw_file(args.serve_codes): print(...); quit()
CheckServeCodes ==
    /\ pc = "check_serve_codes"
    /\ IF ~is_dvw_file(args.serve_codes)
       THEN /\ console' = Append(console, "serve codes is not a valid dvw file")
            /\ pc' = "exit"
       ELSE /\ pc' = "open_codes"
            /\ UNCHANGED console
    /\ UNCHANGED <<args, input_file, bak_file, stderr, extractVars, mergeVars>>

\* get_verbose_service_codes: service_codes = []; open(file_input, 'r')
ExtractOpen ==
    /\ pc = "open_codes"
    /\ codes_rest' = codes_file
    /\ service_codes' = <<>>
    /\ pc' = "extract"
    /\ UNCHANGED <<args, input_file, bak_file, codes_file, stderr, console, mergeVars>>

\* one iteration of 'for line in file'
ExtractLine ==
    /\ pc = "extract"
    /\ codes_rest # <<>>
    /\ LET r == extract_line(service_codes, Head(codes_rest),
                             Len(codes_file) - Len(codes_rest) + 1)
       IN  /\ service_codes' = r.codes
           /\ stderr' = stderr \o r.err
    /\ codes_rest' = Tail(codes_rest)
    /\ UNCHANGED <<pc, args, input_file, bak_file, codes_file, console, mergeVars>>

\* return service_codes; merge(...) is entered: index = 0, current_line = 0
ExtractReturn ==
    /\ pc = "extract"
    /\ codes_rest = <<>>
    /\ index' = 0
    /\ current_line' = 0
    /\ pc' = "open_target"
    /\ UNCHANGED <<args, input_file, bak_file, stderr, console, extractVars,
                   f, line, is_reception_substituted, written>>

\* OpenTarget with the backup opened for writing: it is left empty.
OpenTargetEmptyBackup ==
    /\ pc = "open_target"
    /\ bak_file' = <<>>
    /\ input_file' = <<>>
    /\ f' = readlines(input_file)
    /\ pc' = "for"
    /\ UNCHANGED <<args, stderr, console, extractVars,
                   index, current_line, line, is_reception_substituted, written>>

\* The first 'for line in f' makes fileinput open the file: the target is renamed
\* to its '.bak' sibling (an older one is unlinked), the backup is opened for
\* reading, and a new empty target is opened for writing with stdout redirected to it.
OpenTarget ==
    /\ pc = "open_target"
    /\ bak_file' = input_file
    /\ input_file' = <<>>
    /\ f' = readlines(input_file)
    /\ pc' = "for"
    /\ UNCHANGED <<args, stderr, console, extractVars,
                   index, current_line, line, is_reception_substituted, written>>

-----------------------------------------------------------------------------
(* merge *)

Put(src, text) == [src |-> src, text |-> text]

\* What a sequence of print() calls appends to the redirected stdout.
RECURSIVE Printed(_)
Printed(ps) == IF ps = <<>> THEN <<>> ELSE Head(ps).text \o <<NL>> \o Printed(Tail(ps))

\* Number, in the file, of the line read last.
LineNo == Len(readlines(bak_file)) - Len(f)

\* The pass-through test, one line short.
before_start_one_short(line_number, cur) == line_number # 0 /\ cur + 1 < line_number

\* if line_number and current_line < line_number
before_start(line_number, cur) == line_number # 0 /\ cur < line_number

\* if line and not is_reception_substituted: print(line.rstrip())
fallback(ln, flag, src) ==
    IF Truthy(ln) /\ ~flag THEN <<Put(src, rstrip(ln))>> ELSE <<>>

\* while_step with the cursor moved on by a serve line that finds no pair left.
while_step_past_the_end ==
    LET src == LineNo
        stay == [pc |-> "for", index |-> index, line |-> line, f |-> f,
                 flag |-> is_reception_substituted,
                 out |-> fallback(line, is_reception_substituted, src), err |-> <<>>]
    IN
    IF PATTERN_SERVE(line) = 0 THEN stay
    ELSE IF index >= Len(service_codes)
    THEN [stay EXCEPT !.index = index + 1,
                      !.err = <<Diag("service codes not replaced", src)>>]
    ELSE
    LET old_serve_line == rstrip(line)
        new_serve_line == re_sub("S", service_codes[index + 1][1], old_serve_line)
        o1 == <<Put(src, new_serve_line)>>
        e1 == <<Log("<", old_serve_line, src), Log(">", new_serve_line, src)>>
    IN
    IF new_serve_line = ReError
    THEN [stay EXCEPT !.pc = "raised", !.out = <<>>, !.err = <<Diag("Traceback", src)>>]
    ELSE IF f = <<>>                                    \* next(f, None) is None: break
    THEN [stay EXCEPT !.line = None, !.out = o1, !.err = e1]
    ELSE
    LET nxt == Head(f)
        old_reception_line == rstrip(nxt)
        code == service_codes[index + 1][2]
        new_reception_line == re_sub("R", code, old_reception_line)
        read == [stay EXCEPT !.line = nxt, !.f = Tail(f)]
    IN
    IF PATTERN_RECEPTION(old_reception_line) > 0 /\ Truthy(code)
    THEN IF new_reception_line = ReError
         THEN [read EXCEPT !.pc = "raised", !.out = o1,
                           !.err = e1 \o <<Diag("Traceback", src + 1)>>]
         ELSE [read EXCEPT !.pc = "while", !.index = index + 1, !.flag = TRUE,
                           !.out = o1 \o <<Put(src + 1, new_reception_line)>>,
                           !.err = e1 \o <<Log("<", old_reception_line, src + 1),
                                           Log(">", new_reception_line, src + 1)>>]
    ELSE [read EXCEPT !.pc = "while", !.index = index + 1, !.out = o1, !.err = e1]

\* One evaluation of the while condition on the line in hand, with the iteration
\* of the loop body it leads to, or with the statement after the loop when the
\* loop is left.
while_step ==
    LET src == LineNo
        stay == [pc |-> "for", index |-> index, line |-> line, f |-> f,
                 flag |-> is_reception_substituted,
                 out |-> fallback(line, is_reception_substituted, src), err |-> <<>>]
    IN
    IF PATTERN_SERVE(line) = 0 THEN stay
    ELSE IF index = Len(service_codes)
    THEN [stay EXCEPT !.err = <<Diag("service codes not replaced", src)>>]
    ELSE
    LET old_serve_line == rstrip(line)
        new_serve_line == re_sub("S", service_codes[index + 1][1], old_serve_line)
        o1 == <<Put(src, new_serve_line)>>
        e1 == <<Log("<", old_serve_line, src), Log(">", new_serve_line, src)>>
    IN
    IF new_serve_line = ReError
    THEN [stay EXCEPT !.pc = "raised", !.out = <<>>, !.err = <<Diag("Traceback", src)>>]
    ELSE IF f = <<>>                                    \* next(f, None) is None: break
    THEN [stay EXCEPT !.line = None, !.out = o1, !.err = e1]
    ELSE
    LET nxt == Head(f)
        old_reception_line == rstrip(nxt)
        code == service_codes[index + 1][2]
        new_reception_line == re_sub("R", code, old_reception_line)
        read == [stay EXCEPT !.line = nxt, !.f = Tail(f)]
    IN
    IF PATTERN_RECEPTION(old_reception_line) > 0 /\ Truthy(code)
    THEN IF new_reception_line = ReError
         THEN [read EXCEPT !.pc = "raised", !.out = o1,
                           !.err = e1 \o <<Diag("Traceback", src + 1)>>]
         ELSE [read EXCEPT !.pc = "while", !.index = index + 1, !.flag = TRUE,
                           !.out = o1 \o <<Put(src + 1, new_reception_line)>>,
                           !.err = e1 \o <<Log("<", old_reception_line, src + 1),
                                           Log(">", new_reception_line, src + 1)>>]
    ELSE [read EXCEPT !.pc = "while", !.index = index + 1, !.out = o1, !.err = e1]

\* for line in f: current_line += 1; the pass-through test; the flag is cleared
ForStep ==
    /\ pc = "for"
    /\ f # <<>>
    /\ line' = Head(f)
    /\ f' = Tail(f)
    /\ current_line' = current_line + 1
    /\ IF before_start(args.line_number, current_line + 1)
       THEN /\ written' = Append(written, Put(LineNo + 1, rstrip(Head(f))))
            /\ input_file' = input_file \o rstrip(Head(f)) \o <<NL>>
            /\ pc' = "for"
            /\ UNCHANGED is_reception_substituted
       ELSE /\ is_reception_substituted' = FALSE
            /\ pc' = "while"
            /\ UNCHANGED <<written, input_file>>
    /\ UNCHANGED <<args, bak_file, stderr, console, extractVars, index>>

\* WhileStep with the cursor also moved on by a serve line substituted at the
\* end of the file.
WhileStepCountingLast ==
    /\ pc = "while"
    /\ LET r == while_step
       IN  /\ pc' = r.pc
           /\ index' = IF r.line = None THEN r.index + 1 ELSE r.index
           /\ line' = r.line
           /\ f' = r.f
           /\ is_reception_substituted' = r.flag
           /\ written' = written \o r.out
           /\ input_file' = input_file \o Printed(r.out)
           /\ stderr' = stderr \o r.err
    /\ UNCHANGED <<args, bak_file, console, extractVars, current_line>>

WhileStep ==
    /\ pc = "while"
    /\ LET r == while_step
       IN  /\ pc' = r.pc
           /\ index' = r.index
           /\ line' = r.line
           /\ f' = r.f
           /\ is_reception_substituted' = r.flag
           /\ written' = written \o r.out
           /\ input_file' = input_file \o Printed(r.out)
           /\ stderr' = stderr \o r.err
    /\ UNCHANGED <<args, bak_file, console, extractVars, current_line>>

\* The file is exhausted: fileinput closes it and restores stdout, merge returns
\* True and the script prints its message.
MergeReturn ==
    /\ pc = "for"
    /\ f = <<>>
    /\ console' = Append(console, "Successfully merged dvw files.")
    /\ pc' = "exit"
    /\ UNCHANGED <<args, input_file, bak_file, stderr, extractVars, mergeVars>>

Next ==
    \/ RequireServeCodes
    \/ CheckInput
    \/ CheckServeCodes
    \/ ExtractOpen
    \/ ExtractLine
    \/ ExtractReturn
    \/ OpenTarget
    \/ ForStep
    \/ WhileStep
    \/ MergeReturn

Spec == Init /\ [][Next]_vars

\* The same program on more kinds of lines.
SpecWide == InitWide /\ [][Next]_vars

\* The same program on lines with and without the marker.
SpecMarker == InitMarker /\ [][Next]_vars

\* The script is run again with the same arguments after a first run that merged:
\* the files are as the first run left them, the terminal keeps what was printed.
Rerun ==
    /\ pc = "exit"
    /\ console = <<"Successfully merged dvw files.">>
    /\ pc' = "require_serve_codes"
    /\ codes_rest' = <<>>
    /\ service_codes' = <<>>
    /\ f' = <<>>
    /\ index' = 0
    /\ current_line' = 0
    /\ line' = None
    /\ is_reception_substituted' = FALSE
    /\ written' = <<>>
    /\ UNCHANGED <<args, input_file, bak_file, codes_file, stderr, console>>

NextTwice ==
    \/ Next
    \/ Rerun

SpecTwice == InitTwice /\ [][NextTwice]_vars

\* get_verbose_service_codes alone, on still more kinds of lines.
NextExtract ==
    \/ ExtractOpen
    \/ ExtractLine
    \/ ExtractReturn

SpecExtract == InitExtract /\ [][NextExtract]_vars

-----------------------------------------------------------------------------
(* Vocabulary of the properties *)

IsServe(l) == PATTERN_SERVE(l) > 0
IsReception(l) == PATTERN_RECEPTION(l) > 0

\* The target as it was before merge touched it, and its lines.
Original == IF bak_file = None THEN input_file ELSE bak_file
OrigLines == IF Original = None THEN <<>> ELSE readlines(Original)
NLines == Len(OrigLines)

MergeStarted == bak_file # None
MergeReturned == pc = "exit" /\ MergeStarted
MergeEnded == MergeStarted /\ pc \in {"exit", "raised"}

\* First line merge may substitute.
StartLine == IF args.line_number = 0 THEN 1 ELSE args.line_number

\* The serve lines at or after the starting line, and the rank of line k among them.
ServeLines == { k \in StartLine..NLines : IsServe(OrigLines[k]) }
ServeRank(k) == Cardinality({ m \in ServeLines : m <= k })

\* The part of a line after the prefix its pattern matches.
AfterPrefix(letter, l) == SubSeq(l, MatchLen(letter, l) + 1, Len(l))

\* The print() calls made for line k, as indices of the history.
WrittenFor(k) == { i \in 1..Len(written) : written[i].src = k }
ErrFor(kind, k) == { i \in 1..Len(stderr) : stderr[i].kind = kind /\ stderr[i].src = k }

\* The line of the file a print() call produces.
AsLine(text) == text \o <<NL>>

-----------------------------------------------------------------------------
(* C1 *)

\* C1: when merge has ended, the target holds as many lines as it had before, one
\* print() was made per original line, in order, and the k-th line of the result
\* is the k-th original line, either verbatim or with its matched prefix replaced
\* by a code of the pair sequence.
C1_EveryLineOnceInOrder ==
    MergeEnded =>
       LET out == readlines(input_file)
           Codes == { service_codes[i][1] : i \in 1..Len(service_codes) } \cup
                    { service_codes[i][2] : i \in 1..Len(service_codes) }
       IN  /\ Len(out) = NLines
           /\ Len(written) = NLines
           /\ \A k \in 1..Len(written) : written[k].src = k
           /\ \A k \in 1..NLines : k <= Len(out) =>
                 \/ out[k] = OrigLines[k]
                 \/ /\ IsServe(OrigLines[k])
                    /\ \E c \in Codes : out[k] = c \o AfterPrefix("S", OrigLines[k])
                 \/ /\ IsReception(OrigLines[k])
                    /\ \E c \in Codes : out[k] = c \o AfterPrefix("R", OrigLines[k])

-----------------------------------------------------------------------------
(* C2 *)

\* C2: the j-th serve line at or after the starting line is written, when
\* j <= len(service_codes), as service_codes[j-1][0] followed by the part of the
\* original line after its matched prefix, unchanged.
C2_ServeLineGetsItsPair ==
    MergeStarted =>
       \A k \in ServeLines :
          ServeRank(k) <= Len(service_codes) =>
             /\ \A i \in WrittenFor(k) :
                   AsLine(written[i].text) =
                      service_codes[ServeRank(k)][1] \o AfterPrefix("S", OrigLines[k])
             /\ MergeEnded => WrittenFor(k) # {}

-----------------------------------------------------------------------------
(* C3 *)

\* A serve line that was substituted is one with a '>' entry in the change log.
Substituted(k) == ErrFor(">", k) # {}

\* C3: after a serve line substituted with pair p, the next line of the target is
\* written with its matched prefix replaced by p's reception code when p has one
\* and the line matches the reception pattern, and is written untouched otherwise.
C3_LineAfterServe ==
    MergeStarted =>
       \A k \in ServeLines :
          (Substituted(k) /\ k < NLines /\ ServeRank(k) <= Len(service_codes)) =>
             LET p == service_codes[ServeRank(k)]
                 nxt == OrigLines[k + 1]
             IN  /\ \A i \in WrittenFor(k + 1) :
                       AsLine(written[i].text) =
                          IF Truthy(p[2]) /\ IsReception(nxt)
                          THEN p[2] \o AfterPrefix("R", nxt)
                          ELSE nxt
                 /\ MergeEnded => WrittenFor(k + 1) # {}

-----------------------------------------------------------------------------
(* C4 *)

\* The matched prefixes of the lines that match the pattern with the given letter.
RECURSIVE CodesOf(_, _)
CodesOf(letter, ls) ==
    IF ls = <<>> THEN <<>>
    ELSE (IF MatchLen(letter, Head(ls)) > 0
          THEN <<SubSeq(Head(ls), 1, MatchLen(letter, Head(ls)))>>
          ELSE <<>>) \o CodesOf(letter, Tail(ls))

\* The serve and reception lines of a file, as a sequence of their kinds.
RECURSIVE Kinds(_)
Kinds(ls) ==
    IF ls = <<>> THEN <<>>
    ELSE (IF IsServe(Head(ls)) THEN <<"S">>
          ELSE IF IsReception(Head(ls)) THEN <<"R">> ELSE <<>>) \o Kinds(Tail(ls))

\* C4: without a starting line, when the skeleton has its serve and reception
\* lines in the same order and count as the annotated file, the merged file's
\* i-th serve line carries the code of the annotated file's i-th serve line, and
\* likewise for the reception lines.
C4_RoundTrip ==
    (MergeEnded /\ args.line_number = 0 /\ Kinds(OrigLines) = Kinds(codes_file)) =>
       /\ CodesOf("S", readlines(input_file)) = CodesOf("S", codes_file)
       /\ CodesOf("R", readlines(input_file)) = CodesOf("R", codes_file)

-----------------------------------------------------------------------------
(* C5 *)

MergeKinds == {"<", ">", "service codes not replaced", "Traceback"}

\* C5: with a starting line n > 1, each of the lines 1..n-1 is written as it was
\* read (less its trailing whitespace), whatever it matches; the cursor is 0 as
\* long as only such lines were read and still 0 when line n is examined, so the
\* first serve line from n on is substituted with service_codes[0]; and nothing is
\* logged for the lines before n.
C5_NothingBeforeStart ==
    (MergeStarted /\ args.line_number > 1) =>
       LET n == args.line_number
       IN  /\ \A i \in 1..Len(written) :
                 written[i].src < n =>
                    written[i].text = rstrip(OrigLines[written[i].src])
           /\ \A k \in 1..NLines : k < n /\ LineNo >= k => Cardinality(WrittenFor(k)) = 1
           /\ (pc \in {"for", "while"} /\ LineNo < n) => index = 0
           /\ (pc = "while" /\ LineNo = n) => index = 0
           /\ \A k \in ServeLines :
                 (ServeRank(k) = 1 /\ service_codes # <<>>) =>
                    \A i \in WrittenFor(k) :
                       written[i].text =
                          re_sub("S", service_codes[1][1], rstrip(OrigLines[k]))
           /\ \A i \in 1..Len(stderr) :
                 stderr[i].kind \in MergeKinds => stderr[i].src >= n

\* A merge from line 2 on has ended; line 1 is a serve line, which used no pair,
\* and a later serve line was substituted.
C5_Witness ==
    /\ MergeReturned
    /\ args.line_number = 2
    /\ NLines >= 2
    /\ IsServe(OrigLines[1])
    /\ \E k \in ServeLines : Substituted(k)

-----------------------------------------------------------------------------
(* C6 *)

\* C6: when there are more serve lines from the starting line on than pairs,
\* merge raises nothing, every serve line beyond the len(service_codes)-th is
\* written once and unmodified, and one 'not replaced' diagnostic is printed for it.
C6_ExhaustedPairs ==
    (MergeEnded /\ Cardinality(ServeLines) > Len(service_codes)) =>
       /\ pc # "raised"
       /\ \A k \in ServeLines :
             ServeRank(k) > Len(service_codes) =>
                /\ Cardinality(WrittenFor(k)) = 1
                /\ \A i \in WrittenFor(k) : AsLine(written[i].text) = OrigLines[k]
                /\ Cardinality(ErrFor("service codes not replaced", k)) = 1

-----------------------------------------------------------------------------
(* C7 *)

OrphanReception ==
    /\ pc = "extract"
    /\ codes_rest # <<>>
    /\ IsReception(Head(codes_rest))
    /\ \/ service_codes = <<>>
       \/ service_codes[Len(service_codes)][2] # None

\* C7: the extractor's step on a reception line read when the list is empty or
\* its last pair has a reception code leaves the list as it was, prints one
\* diagnostic and goes on to the next line.
C7_OrphanReceptionSkipped ==
    [][ OrphanReception =>
           /\ service_codes' = service_codes
           /\ Len(stderr') = Len(stderr) + 1
           /\ stderr'[Len(stderr')].kind = "reception before service"
           /\ pc' = "extract"
           /\ codes_rest' = Tail(codes_rest) ]_vars

\* A serve line, its reception line and a reception line with another code have
\* been read: the third line was reported and the pair kept its reception code.
C7_Witness ==
    /\ pc = "extract"
    /\ Len(codes_file) = 3 /\ codes_rest = <<>>
    /\ IsServe(codes_file[1]) /\ IsReception(codes_file[2]) /\ IsReception(codes_file[3])
    /\ codes_file[3] # codes_file[2]
    /\ Len(service_codes) = 1
    /\ service_codes[1][2] = SubSeq(codes_file[2], 1, PATTERN_RECEPTION(codes_file[2]))
    /\ ErrFor("reception before service", 3) # {}

-----------------------------------------------------------------------------
(* C8 *)

\* C8: a line that matches neither pattern is written character for character as
\* it was read, before and after the starting line.
C8_OrdinaryLineVerbatim ==
    \A i \in 1..Len(written) :
       LET l == OrigLines[written[i].src]
       IN  (~IsServe(l) /\ ~IsReception(l)) => AsLine(written[i].text) = l

-----------------------------------------------------------------------------
(* C9 *)

\* C9: the backup is made from the target's content as it was when merge started,
\* the target does not change before that, the backup never changes afterwards,
\* and no line is written into the target while there is no backup.
C9_BackupBeforeWrite ==
    [][ /\ (bak_file = None /\ input_file' # input_file) => bak_file' = input_file
        /\ (bak_file = None /\ bak_file' # None) => bak_file' = input_file
        /\ bak_file # None => bak_file' = bak_file
        /\ written' # written => bak_file # None ]_vars

\* merge has returned, the target differs from its backup.
C9_Witness ==
    /\ MergeReturned
    /\ written # <<>>
    /\ input_file # bak_file

-----------------------------------------------------------------------------
(* C10 *)

\* The three tests of a '.dvw' path, spelled out.
ValidDvw(p) == p.exists /\ ~p.isdir /\ p.ext = ".dvw"
AllChecksPass == args.serve_codes.given /\ ValidDvw(args.input) /\ ValidDvw(args.serve_codes)

\* C10: the checks are made in the order --serve-codes, input path, serve-codes
\* path; the target changes or gets a backup only in a step taken after all three
\* passed and the extraction ended; and a run in which a check fails ends with the
\* target as it was, no backup, and merge not entered.
C10_ChecksBeforeMutation ==
    /\ [](pc = "check_input" => args.serve_codes.given)
    /\ [](pc = "check_serve_codes" => args.serve_codes.given /\ ValidDvw(args.input))
    /\ [](pc \in {"open_codes", "extract", "open_target", "for", "while", "raised"}
             => AllChecksPass)
    /\ []((pc = "exit" /\ ~AllChecksPass)
             => bak_file = None /\ written = <<>> /\ service_codes = <<>>
                /\ console # <<"Successfully merged dvw files.">>)
    /\ [][ (input_file' # input_file \/ bak_file' # bak_file)
              => /\ AllChecksPass
                 /\ pc \in {"open_target", "for", "while"}
                 /\ codes_rest = <<>> ]_vars

\* A run ended at the input path's check, which a regular file with lines in it
\* but without the '.dvw' extension failed.
C10_Witness ==
    /\ pc = "exit"
    /\ args.serve_codes.given
    /\ args.input.exists /\ ~args.input.isdir /\ args.input.ext # ".dvw"
    /\ input_file # <<>>
    /\ console = <<"input is not a valid dvw file">>

-----------------------------------------------------------------------------
(* C11 *)

\* C11: merge ends by returning True, whatever the pairs and the target are: an
\* iteration of the inner loop reads a new line or leaves the loop, a merge that
\* has ended has returned, and the script then printed its success message.
C11_MergeReturnsTrue ==
    /\ [][ pc = "while" => (Len(f') < Len(f) \/ pc' # "while") ]_vars
    /\ [](MergeEnded =>
             /\ pc = "exit"
             /\ console = <<"Successfully merged dvw files.">>)

-----------------------------------------------------------------------------
(* C12 *)

\* The lines of the annotated file the extractor has read so far.
CodesRead == SubSeq(codes_file, 1, Len(codes_file) - Len(codes_rest))

\* The positions of the serve lines among the lines read.
ServeRead == { k \in 1..Len(CodesRead) : IsServe(CodesRead[k]) }

\* The reception lines read after the serve line at k and before the next serve line.
ReceptionsOf(k) ==
    { r \in (k + 1)..Len(CodesRead) :
        /\ IsReception(CodesRead[r])
        /\ \A m \in (k + 1)..r : m \notin ServeRead }

\* What the pattern with the given letter matches of a line.
MatchedPrefix(letter, l) == SubSeq(l, 1, MatchLen(letter, l))

\* The pair the serve line at k stands for.
PairOf(k) ==
    << MatchedPrefix("S", CodesRead[k]),
       IF ReceptionsOf(k) = {} THEN None
       ELSE MatchedPrefix("R", CodesRead[CHOOSE r \in ReceptionsOf(k) :
                                           \A q \in ReceptionsOf(k) : r <= q]) >>

\* C12: the list holds one pair per serve line read, in file order; a pair's
\* serve code is its line's matched prefix, its reception code the matched
\* prefix of the first reception line read after its serve line and before the
\* next serve line, or None without one; a reception code is never replaced.
C12_OnePairPerServeLine ==
    /\ [](pc = "extract" =>
             /\ Len(service_codes) = Cardinality(ServeRead)
             /\ \A k \in ServeRead :
                   service_codes[Cardinality({ m \in ServeRead : m <= k })] = PairOf(k))
    /\ [][ \A j \in 1..Len(service_codes) :
              service_codes[j][2] # None =>
                 /\ j <= Len(service_codes')
                 /\ service_codes'[j] = service_codes[j] ]_vars

\* A serve line, a line matching neither pattern and a reception line have been
\* read: the pair of the first line has the code of the third.
C12_Witness ==
    /\ pc = "extract"
    /\ Len(codes_file) = 3 /\ codes_rest = <<>>
    /\ IsServe(codes_file[1])
    /\ ~IsServe(codes_file[2]) /\ ~IsReception(codes_file[2])
    /\ IsReception(codes_file[3])
    /\ service_codes = << <<SubSeq(codes_file[1], 1, PATTERN_SERVE(codes_file[1])),
                            SubSeq(codes_file[3], 1, PATTERN_RECEPTION(codes_file[3]))>> >>

-----------------------------------------------------------------------------
(* C13 *)

\* The while condition holds for the line in hand and no pair is left.
Exhausted == pc = "while" /\ PATTERN_SERVE(line) > 0 /\ index = Len(service_codes)

\* The while condition holds and the loop body reads service_codes[index].
ReadsPair == pc = "while" /\ PATTERN_SERVE(line) > 0 /\ index # Len(service_codes)

\* C13: the cursor stays within 0..len(pairs) and never decreases, the pair at
\* the cursor is read only while the cursor is below len(pairs), and a serve
\* line met with the cursor at len(pairs) gets the diagnostic of exhausted
\* pairs: the cursor stays, no pair is read and the loop is left.
C13_CursorInRange ==
    /\ [](index \in 0..Len(service_codes))
    /\ [](ReadsPair => index < Len(service_codes))
    /\ [][ index' >= index ]_vars
    /\ [][ Exhausted =>
              /\ stderr' = Append(stderr, Diag("service codes not replaced", LineNo))
              /\ index' = index
              /\ pc' = "for" ]_vars

\* Every pair has been used and a further serve line was reported.
C13_Witness ==
    /\ MergeReturned
    /\ Len(service_codes) >= 1
    /\ index = Len(service_codes)
    /\ \E k \in ServeLines : ErrFor("service codes not replaced", k) # {}

-----------------------------------------------------------------------------
(* C14 *)

\* The serve lines substituted so far.
SubstitutedServes == { k \in ServeLines : Substituted(k) }

\* C14 as stated: when merge has returned, the cursor equals the number of serve
\* lines that were substituted, whatever followed each of them.
C14_CursorCountsSubstituted ==
    MergeReturned => index = Cardinality(SubstitutedServes)

\* C14, amended: a step moves the cursor by one or not at all; an iteration of
\* the loop body substitutes its serve line and moves the cursor by one when a
\* line follows the serve line, substitutes it and leaves the cursor when the
\* serve line is the last line of the file, and leaves the cursor when re.sub
\* raises; when merge has returned, the cursor equals the number of substituted
\* serve lines that are not the last line.
C14_CursorCountsSubstitutedFollowed ==
    /\ [][ index' \in {index, index + 1} ]_vars
    /\ [][ ReadsPair =>
              \E k \in ServeLines :
                 /\ k = LineNo
                 /\ \/ pc' = "while" /\ k < NLines /\ Substituted(k)' /\ index' = index + 1
                    \/ pc' = "for" /\ k = NLines /\ Substituted(k)' /\ index' = index
                    \/ pc' = "raised" /\ index' = index ]_vars
    /\ [](MergeReturned =>
             index = Cardinality({ k \in SubstitutedServes : k < NLines }))

\* merge has returned after substituting the last line of the file and another
\* serve line before it.
C14_Witness ==
    /\ MergeReturned
    /\ NLines \in SubstitutedServes
    /\ index >= 1
    /\ index = Cardinality(SubstitutedServes) - 1

-----------------------------------------------------------------------------
(* C15 *)

\* The line starts with two digits and the letter, with no marker before them.
Bare(letter, l) ==
    /\ Len(l) >= 3
    /\ l[1] \in Digits /\ l[2] \in Digits
    /\ l[3] = letter

BareCode(l) == Bare("S", l) \/ Bare("R", l)

\* C15 as stated: the marker is optional, so the extractor has made a pair for
\* every line read that starts with two digits and the serve letter, with or
\* without a marker, and merge has treated every such line from the starting
\* line on as a serve line: it was substituted or reported as left without a pair.
C15_MarkerOptional ==
    /\ pc = "extract" =>
          Len(service_codes) =
             Cardinality({ k \in 1..Len(CodesRead) :
                             IsServe(CodesRead[k]) \/ Bare("S", CodesRead[k]) })
    /\ MergeReturned =>
          \A k \in StartLine..NLines :
             Bare("S", OrigLines[k]) =>
                \/ Substituted(k)
                \/ ErrFor("service codes not replaced", k) # {}

\* C15, amended: the marker is required. The extractor passes over a line that
\* starts with two digits and the serve or the reception letter without a
\* marker: no pair is added or changed and nothing is reported. merge treats
\* such a line as an ordinary line, also right after a substituted serve line:
\* it is written once without its trailing whitespace, the cursor stays and
\* nothing is logged.
C15_MarkerRequired ==
    /\ [][ (pc = "extract" /\ codes_rest # <<>> /\ BareCode(Head(codes_rest))) =>
              /\ service_codes' = service_codes
              /\ stderr' = stderr
              /\ codes_rest' = Tail(codes_rest) ]_vars
    /\ [][ (pc = "while" /\ BareCode(line)) =>
              /\ written' = Append(written, Put(LineNo, rstrip(line)))
              /\ index' = index
              /\ stderr' = stderr
              /\ pc' = "for" ]_vars

\* merge has returned: a serve line was substituted with a pair that has a
\* reception code, the line after it is a reception code without the marker and
\* was written as it was but for its trailing whitespace, and the annotated file
\* has a line without the marker that made no pair.
C15_Witness ==
    /\ MergeReturned
    /\ \E k \in 1..Len(codes_file) : BareCode(codes_file[k])
    /\ Len(service_codes) = 1 /\ service_codes[1][2] # None
    /\ \E k \in ServeLines :
          /\ Substituted(k)
          /\ k < NLines
          /\ Bare("R", OrigLines[k + 1])
          /\ \E i \in WrittenFor(k + 1) : written[i].text = rstrip(OrigLines[k + 1])
          /\ ~Substituted(k + 1)

-----------------------------------------------------------------------------
(* C16 *)

\* The text has neither a field separator nor a line terminator.
OneField(code) == \A i \in 1..Len(code) : code[i] \notin {";", NL}

\* C16: every serve code and every reception code of the list has neither a
\* ';' nor a line terminator, also when its line has no ';' at all, and a
\* substituted line is written as one line: its print() has no line terminator
\* inside.
C16_CodeIsOneField ==
    /\ \A j \in 1..Len(service_codes) :
          /\ OneField(service_codes[j][1])
          /\ service_codes[j][2] # None => OneField(service_codes[j][2])
    /\ \A i \in 1..Len(written) :
          \A c \in 1..Len(written[i].text) : written[i].text[c] # NL

-----------------------------------------------------------------------------
(* C17 *)

\* C17: a reception line of the target is modified only if the line before it is
\* a serve line substituted in this run. A reception line that is the first
\* line processed, or that follows an ordinary line, another reception line or
\* a serve line left without a pair, is written as it was, and the step that
\* writes it leaves the cursor alone.
C17_ReceptionNeedsSubstitutedServe ==
    /\ [](\A k \in 1..NLines :
             (IsReception(OrigLines[k]) /\ ~(k - 1 \in ServeLines /\ Substituted(k - 1))) =>
                /\ ~Substituted(k)
                /\ \A i \in WrittenFor(k) : AsLine(written[i].text) = OrigLines[k])
    /\ [][ (pc = "while" /\ IsReception(line)) => index' = index ]_vars

-----------------------------------------------------------------------------
(* C18 *)

\* The second run of the script has merged: the backup holds what the first run
\* wrote, the target what the second run wrote.
MergedTwice ==
    /\ pc = "exit"
    /\ console = <<"Successfully merged dvw files.", "Successfully merged dvw files.">>

\* C18: merge run again on its own output, with the same pairs and the same
\* starting line, leaves the target as the first run wrote it.
C18_SecondRunChangesNothing ==
    MergedTwice => input_file = bak_file

====
